---- MODULE Spec2Model ----
(***************************************************************************)
(* Model of the dir-size library (src/lib.rs).                             *)
(*                                                                         *)
(*   get_size_in_bytes / get_size_in_human_bytes /                         *)
(*   get_size_in_abbr_human_bytes : the three public entry points          *)
(*   get_dir_size                 : the recursive, rayon-parallel walk     *)
(*   convert_to_human_bytes       : the unit table formatter               *)
(*                                                                         *)
(* A u64 is a little-endian sequence of seven base-1024 limbs, the top one *)
(* below 16, so that 7 * 10 - 6 = 64 bits are represented exactly and the  *)
(* constants 1 << 10 .. 1 << 60 of the source are single limbs.            *)
(***************************************************************************)
EXTENDS Integers, Sequences, FiniteSets, TLC

(* ------------------------------------------------------------------ *)
(* Bounds of the model                                                  *)
(* ------------------------------------------------------------------ *)

\* Number of filesystem objects (inodes) the model knows; node 1 is the
\* top-level path handed to the public functions.
MaxNodes == 4

\* Number of filesystem calls that may fail during one call of the library.
MaxFaults == 2

\* The formatter is run on every u64 whose limbs are each 0..SampleWidth or
\* the largest value of the limb.
SampleWidth == 1

(* ------------------------------------------------------------------ *)
(* u64 arithmetic on limbs                                              *)
(* ------------------------------------------------------------------ *)

Limbs == 1..7

LimbBase == 2^10

\* The largest value a limb can hold: 1023, and 15 for the top limb.
LimbMax(i) == IF i = 7 THEN 2^4 - 1 ELSE LimbBase - 1

\* 1 << k for k a multiple of ten, as the source writes its constants.
Shl1(k) == [i \in Limbs |-> IF i = (k \div 10) + 1 THEN 2^(k % 10) ELSE 0]

KIBIBYTE == Shl1(10)
MEBIBYTE == Shl1(20)
GIBIBYTE == Shl1(30)
TEBIBYTE == Shl1(40)
PEBIBYTE == Shl1(50)
EXBIBYTE == Shl1(60)

\* The literal 1 of the first row of UNITS.
ONEBYTE == Shl1(0)

\* A natural number below 2^30 as a u64: it fills the three lowest limbs.
ToU64(n) ==
    [i \in Limbs |-> IF i <= 3 THEN (n \div (LimbBase^(i - 1))) % LimbBase ELSE 0]

\* a < b on u64: the highest limb where they differ decides.
LtU64(a, b) ==
    \E i \in Limbs : a[i] < b[i] /\ \A j \in Limbs : j > i => a[j] = b[j]

IsZeroU64(a) == \A i \in Limbs : a[i] = 0

\* a / b on u64 for a divisor that is a power of 1024 (every divisor of the
\* source is one): the limbs of a move down by the position of b's limb.
DivU64(a, b) ==
    LET k == CHOOSE i \in Limbs : b[i] # 0
    IN  [i \in Limbs |-> IF i + k - 1 <= 7 THEN a[i + k - 1] ELSE 0]

\* a / 10 and a % 10 by long division from the top limb down; Display uses
\* them to print a u64 in decimal.
RECURSIVE DivMod10(_, _, _)
DivMod10(a, i, carry) ==
    IF i = 0 THEN [quot |-> a, rem |-> carry]
    ELSE LET cur == carry * LimbBase + a[i]
         IN  DivMod10([a EXCEPT ![i] = cur \div 10], i - 1, cur % 10)

DecimalDigit == <<"0", "1", "2", "3", "4", "5", "6", "7", "8", "9">>

\* The Display implementation of u64 that format!("{}") calls.
RECURSIVE Display(_)
Display(a) ==
    LET dm == DivMod10(a, 7, 0)
    IN  IF IsZeroU64(dm.quot) THEN DecimalDigit[dm.rem + 1]
        ELSE Display(dm.quot) \o DecimalDigit[dm.rem + 1]

(* ------------------------------------------------------------------ *)
(* convert_to_human_bytes                                               *)
(* ------------------------------------------------------------------ *)

\* const UNITS: ((min_bytes, max_bytes), abbr_unit, full_unit)
UNITS == <<
    [min_bytes |-> ONEBYTE,  max_bytes |-> KIBIBYTE, abbr_unit |-> "B", full_unit |-> "Bytes"],
    [min_bytes |-> KIBIBYTE, max_bytes |-> MEBIBYTE, abbr_unit |-> "K", full_unit |-> "KiB"],
    [min_bytes |-> MEBIBYTE, max_bytes |-> GIBIBYTE, abbr_unit |-> "M", full_unit |-> "MiB"],
    [min_bytes |-> GIBIBYTE, max_bytes |-> TEBIBYTE, abbr_unit |-> "G", full_unit |-> "GiB"],
    [min_bytes |-> TEBIBYTE, max_bytes |-> PEBIBYTE, abbr_unit |-> "T", full_unit |-> "TiB"],
    [min_bytes |-> PEBIBYTE, max_bytes |-> EXBIBYTE, abbr_unit |-> "P", full_unit |-> "PiB"] >>

\* format!("{} {}", quotient, unit)
Format2(quotient, unit) == Display(quotient) \o " " \o unit

\* Faulty variant of RowMatches: size_in_bytes <= max_bytes.
RowMatchesOffByOne(size_in_bytes, row) == ~LtU64(row.max_bytes, size_in_bytes)

\* The test of the for loop: does this row take the size?
RowMatches(size_in_bytes, row) == LtU64(size_in_bytes, row.max_bytes)

\* The for loop over UNITS from row r on, and the fall-through to EiB.
RECURSIVE ScanUnits(_, _, _)
ScanUnits(size_in_bytes, abbr, r) ==
    IF r > Len(UNITS)
    THEN Format2(DivU64(size_in_bytes, EXBIBYTE), IF abbr THEN "E" ELSE "EiB")
    ELSE IF RowMatches(size_in_bytes, UNITS[r])
         THEN Format2(DivU64(size_in_bytes, UNITS[r].min_bytes),
                      IF abbr THEN UNITS[r].abbr_unit ELSE UNITS[r].full_unit)
         ELSE ScanUnits(size_in_bytes, abbr, r + 1)

convert_to_human_bytes(size_in_bytes, abbr) == ScanUnits(size_in_bytes, abbr, 1)

(* ------------------------------------------------------------------ *)
(* The filesystem and the state of one call                             *)
(* ------------------------------------------------------------------ *)

VARIABLES
    kind,       \* node -> its own file type, as lstat reports it
    parent,     \* node -> the directory that holds it, 0 for none
    target,     \* symbolic link -> the node it points at, 0 otherwise
    len,        \* node -> st_size of the node itself
    api,        \* the public function that was called, known at its return
    pc,         \* "start", "walking" (in get_dir_size), "returned", "done"
    task,       \* node -> position of the worker that handles it
    contrib,    \* node -> what its closure handed to filter_map
    fault,      \* node -> the filesystem call on it that failed, if any
    topErr,     \* the error the operating system gave for a call on Top
    statCount,  \* node -> metadata queries made on it
    listCount,  \* node -> read_dir calls made on it
    result,     \* what get_size_in_bytes returned
    out,        \* what the public function returned
    fsize,      \* convert_to_human_bytes: size_in_bytes
    fabbr,      \* convert_to_human_bytes: abbr
    fout        \* convert_to_human_bytes: the String returned, "" before

fsVars == <<kind, parent, target, len>>
callVars ==
    <<api, pc, task, contrib, fault, topErr, statCount, listCount, result, out>>
fmtVars == <<fsize, fabbr, fout>>
vars == <<fsVars, callVars, fmtVars>>

Nodes == 1..MaxNodes

\* The path given to the public function.
Top == 1

Kinds == {"file", "dir", "symlink", "socket"}

\* std::io::ErrorKind of the failures the operating system reports here.
IoErrors == {"NotFound", "PermissionDenied"}

\* Option<u64>
None == [some |-> FALSE]
Some(v) == [some |-> TRUE, val |-> v]

\* io::Result<u64>, and Ok of io::Result<String>
Ok(v) == [tag |-> "Ok", val |-> v]
OkString(str) == [tag |-> "Ok", text |-> str]
Err(e) == [tag |-> "Err", err |-> e]

NoResult == [tag |-> "Pending"]

Children(n) == {c \in Nodes : parent[c] = n}

NumFaults == Cardinality({n \in Nodes : fault[n] # "none"})

\* st_size of node n: distinct powers of two times 300, so that every set of
\* nodes has its own total and totals cross the 1 KiB boundary.  Directories,
\* links and sockets have a length of their own too.  The totals stay far
\* below 2^64, so the u64 additions of .sum() are exact here; lengths that
\* only sparse files reach are outside the model.
LenChoices(n) == {300 * 2^(n - 1)}

\* Faulty variant of symlink_metadata: fs::metadata, which follows a link.
metadata_follow(n) ==
    LET m == IF kind[n] = "symlink" /\ target[n] # 0 THEN target[n] ELSE n
    IN  [file_type |-> kind[m], len |-> len[m]]

\* fs::symlink_metadata: the node's own type and length, links not followed.
symlink_metadata(n) == [file_type |-> kind[n], len |-> len[n]]

\* DirEntry::metadata: does not traverse a symbolic link either.
entry_metadata(n) == symlink_metadata(n)

is_file(meta) == meta.file_type = "file"
is_dir(meta) == meta.file_type = "dir"

\* Result::ok
ok(r) == IF r.tag = "Ok" THEN Some(r.val) ELSE None

RECURSIVE SumOver(_)
SumOver(S) ==
    IF S = {} THEN 0
    ELSE LET c == CHOOSE x \in S : TRUE
         IN  (IF contrib[c].some THEN contrib[c].val ELSE 0) + SumOver(S \ {c})

\* Faulty variant of DirTotal: one entry without a contribution voids the
\* directory's total, as .map(..).sum::<Option<u64>>() would.
DirTotalAllOrNothing(n) ==
    IF \A c \in Children(n) : contrib[c].some THEN SumOver(Children(n)) ELSE 0

\* .filter_map(..).sum() over the entries of directory n.
DirTotal(n) == SumOver(Children(n))

\* Faulty variant of AllEntriesDone: the total is taken while closures of
\* the directory still run.
SomeEntryDone(n) ==
    Children(n) = {} \/ \E c \in Children(n) : task[c] = "done"

\* The parallel iterator returns when every entry's closure has returned.
AllEntriesDone(n) == \A c \in Children(n) : task[c] = "done"

\* Faulty variants of Propagates: a nested listing error unwinds the whole
\* call; the top-level listing error is swallowed like a nested one.
PropagatesAlways(n) == TRUE

PropagatesNever(n) == FALSE

\* get_size_in_bytes returns get_dir_size(path) as it is, while the closure
\* turns the Result of a nested get_dir_size into an Option with .ok().
Propagates(n) == n = Top

\* Faulty variant of TopStatFailed: a default size instead of the error.
TopStatFailedDefault(e) == Ok(0)

\* Err(e) => Err(e) of get_size_in_bytes.
TopStatFailed(e) == Err(e)

\* Faulty variant of AfterError: the failed query is made again.
RetryAfterError == "entry"

\* The closure's `_ => None` arms: where the worker of an entry is after a
\* failed query.
AfterError == "done"

\* Faulty variant of HumanBytes: unwrap_or_default() in place of `?`.
HumanBytesSwallow(r) ==
    IF r.tag = "Ok" THEN OkString(convert_to_human_bytes(ToU64(r.val), FALSE))
    ELSE OkString(convert_to_human_bytes(ToU64(0), FALSE))

\* Ok(convert_to_human_bytes(get_size_in_bytes(path)?, false))
HumanBytes(r) ==
    IF r.tag = "Ok" THEN OkString(convert_to_human_bytes(ToU64(r.val), FALSE))
    ELSE Err(r.err)

\* Ok(convert_to_human_bytes(get_size_in_bytes(path)?, true))
AbbrHumanBytes(r) ==
    IF r.tag = "Ok" THEN OkString(convert_to_human_bytes(ToU64(r.val), TRUE))
    ELSE Err(r.err)

\* get_size_in_bytes returns r to the function that called it.
Finish(r) ==
    /\ result' = r
    /\ pc' = "returned"

(* ------------------------------------------------------------------ *)
(* Initial states                                                       *)
(* ------------------------------------------------------------------ *)

\* Any forest on Nodes: a node hangs below a directory of smaller number or
\* lies outside the tree of Top.
ParentChoices(k, n) == {0} \cup {d \in Nodes : d < n /\ k[d] = "dir"}

\* A symbolic link points at the directory that holds it (an ancestor, so
\* that following it would loop) or at the node numbered after it.
TargetChoices(k, p, n) ==
    IF k[n] = "symlink"
    THEN {(n % MaxNodes) + 1} \cup (IF p[n] # 0 THEN {p[n]} ELSE {})
    ELSE {0}

LenMaps ==
    LET f[n \in 0..MaxNodes] ==
            IF n = 0 THEN {<<>>}
            ELSE {Append(m, x) : m \in f[n - 1], x \in LenChoices(n)}
    IN  f[MaxNodes]

ParentMaps(k) ==
    LET f[n \in 0..MaxNodes] ==
            IF n = 0 THEN {<<>>}
            ELSE {Append(m, x) : m \in f[n - 1], x \in ParentChoices(k, n)}
    IN  f[MaxNodes]

TargetMaps(k, p) ==
    LET f[n \in 0..MaxNodes] ==
            IF n = 0 THEN {<<>>}
            ELSE {Append(m, x) : m \in f[n - 1], x \in TargetChoices(k, p, n)}
    IN  f[MaxNodes]

InitCall ==
    /\ api = "none"
    /\ pc = "start"
    /\ task = [n \in Nodes |-> "idle"]
    /\ contrib = [n \in Nodes |-> None]
    /\ fault = [n \in Nodes |-> "none"]
    /\ topErr = "none"
    /\ statCount = [n \in Nodes |-> 0]
    /\ listCount = [n \in Nodes |-> 0]
    /\ result = NoResult
    /\ out = NoResult

Init ==
    /\ kind \in [Nodes -> Kinds]
    /\ parent \in ParentMaps(kind)
    /\ target \in TargetMaps(kind, parent)
    /\ len \in LenMaps
    /\ InitCall
    /\ fsize = ToU64(0)
    /\ fabbr = FALSE
    /\ fout = ""

(* ------------------------------------------------------------------ *)
(* get_size_in_bytes                                                    *)
(* ------------------------------------------------------------------ *)

\* match fs::symlink_metadata(path) { .. }
get_size_in_bytes ==
    /\ pc = "start"
    /\ statCount' = [statCount EXCEPT ![Top] = @ + 1]
    /\ \/ \E e \in IoErrors :
            /\ NumFaults < MaxFaults
            /\ fault' = [fault EXCEPT ![Top] = "stat"]
            /\ topErr' = e
            /\ Finish(TopStatFailed(e))
            /\ UNCHANGED task
       \/ LET meta == symlink_metadata(Top)
          IN  /\ UNCHANGED <<fault, topErr>>
              /\ IF is_file(meta) THEN Finish(Ok(meta.len)) /\ UNCHANGED task
                 ELSE IF is_dir(meta)
                      THEN /\ task' = [task EXCEPT ![Top] = "listing"]
                           /\ pc' = "walking"
                           /\ UNCHANGED result
                      ELSE Finish(Ok(0)) /\ UNCHANGED task
    /\ UNCHANGED <<api, out, contrib, listCount, fsVars, fmtVars>>

(* ------------------------------------------------------------------ *)
(* get_dir_size                                                         *)
(* ------------------------------------------------------------------ *)

\* fs::read_dir(path)?.collect() of get_dir_size(n)
List(n) ==
    /\ pc = "walking"
    /\ task[n] = "listing"
    /\ listCount' = [listCount EXCEPT ![n] = @ + 1]
    /\ \/ \E e \in IoErrors :
            /\ NumFaults < MaxFaults
            /\ fault' = [fault EXCEPT ![n] = "list"]
            /\ topErr' = IF n = Top THEN e ELSE topErr
            /\ task' = [task EXCEPT ![n] = "done"]
            /\ IF Propagates(n)
               THEN Finish(Err(e)) /\ UNCHANGED contrib
               ELSE /\ contrib' = [contrib EXCEPT ![n] = ok(Err(e))]
                    /\ UNCHANGED <<result, pc>>
       \/ \E bad \in SUBSET Children(n) :
            /\ NumFaults + Cardinality(bad) <= MaxFaults
            /\ fault' = [c \in Nodes |-> IF c \in bad THEN "record" ELSE fault[c]]
            /\ task' = [c \in Nodes |->
                          IF c = n THEN "joining"
                          ELSE IF c \in Children(n) THEN "entry" ELSE task[c]]
            /\ UNCHANGED <<contrib, result, pc, topErr>>
    /\ UNCHANGED <<api, out, statCount, fsVars, fmtVars>>

\* The closure of filter_map on the entry that is node n.
Entry(n) ==
    /\ pc = "walking"
    /\ task[n] = "entry"
    /\ IF fault[n] = "record"
       THEN \* an Err record of the listing: the outer `_ => None`
            /\ task' = [task EXCEPT ![n] = "done"]
            /\ contrib' = [contrib EXCEPT ![n] = None]
            /\ UNCHANGED <<fault, statCount>>
       ELSE /\ statCount' = [statCount EXCEPT ![n] = @ + 1]
            /\ \/ /\ NumFaults < MaxFaults
                  /\ fault' = [fault EXCEPT ![n] = "stat"]
                  /\ task' = [task EXCEPT ![n] = AfterError]
                  /\ contrib' = [contrib EXCEPT ![n] = None]
               \/ LET meta == entry_metadata(n)
                  IN  /\ fault' = fault
                      /\ IF is_file(meta)
                         THEN /\ contrib' = [contrib EXCEPT ![n] = Some(meta.len)]
                              /\ task' = [task EXCEPT ![n] = "done"]
                         ELSE IF is_dir(meta)
                              THEN /\ task' = [task EXCEPT ![n] = "listing"]
                                   /\ UNCHANGED contrib
                              ELSE /\ contrib' = [contrib EXCEPT ![n] = None]
                                   /\ task' = [task EXCEPT ![n] = "done"]
    /\ UNCHANGED <<api, pc, topErr, listCount, result, out, fsVars, fmtVars>>

\* .sum() and Ok(total) of get_dir_size(n), once the parallel iterator is
\* through; for a nested directory the closure's .ok() follows.
Join(n) ==
    /\ pc = "walking"
    /\ task[n] = "joining"
    /\ AllEntriesDone(n)
    /\ task' = [task EXCEPT ![n] = "done"]
    /\ IF n = Top
       THEN Finish(Ok(DirTotal(n))) /\ UNCHANGED contrib
       ELSE /\ contrib' = [contrib EXCEPT ![n] = ok(Ok(DirTotal(n)))]
            /\ UNCHANGED <<result, pc>>
    /\ UNCHANGED <<api, out, fault, topErr, statCount, listCount, fsVars, fmtVars>>

(* ------------------------------------------------------------------ *)
(* The caller of get_size_in_bytes, once it has returned                *)
(* ------------------------------------------------------------------ *)

Returns(a, r) ==
    /\ pc = "returned"
    /\ api' = a
    /\ out' = r
    /\ pc' = "done"
    /\ UNCHANGED <<task, contrib, fault, topErr, statCount, listCount, result>>
    /\ UNCHANGED <<fsVars, fmtVars>>

\* get_size_in_bytes was called from outside the library.
get_size_in_bytes_return == Returns("bytes", result)

get_size_in_human_bytes == Returns("human", HumanBytes(result))

get_size_in_abbr_human_bytes == Returns("abbr", AbbrHumanBytes(result))

Next ==
    \/ get_size_in_bytes
    \/ \E n \in Nodes : List(n)
    \/ \E n \in Nodes : Entry(n)
    \/ \E n \in Nodes : Join(n)
    \/ get_size_in_bytes_return
    \/ get_size_in_human_bytes
    \/ get_size_in_abbr_human_bytes

Spec == Init /\ [][Next]_vars

\* The workers of the thread pool keep running: some enabled step is taken.
FairSpec == Spec /\ WF_vars(Next)

(* ------------------------------------------------------------------ *)
(* convert_to_human_bytes on its own, over the whole range of u64       *)
(* ------------------------------------------------------------------ *)

LimbSamples(i) == (0..SampleWidth) \cup {LimbMax(i)}

InitFormat ==
    /\ kind = [n \in Nodes |-> "file"]
    /\ parent = [n \in Nodes |-> 0]
    /\ target = [n \in Nodes |-> 0]
    /\ len \in LenMaps
    /\ InitCall
    /\ fsize \in [Limbs -> UNION {LimbSamples(i) : i \in Limbs}]
    /\ \A i \in Limbs : fsize[i] \in LimbSamples(i)
    /\ fabbr \in BOOLEAN
    /\ fout = ""

Convert ==
    /\ fout = ""
    /\ fout' = convert_to_human_bytes(fsize, fabbr)
    /\ UNCHANGED <<fsize, fabbr, fsVars, callVars>>

NextFormat == Convert

FormatSpec == InitFormat /\ [][NextFormat]_vars

(* ------------------------------------------------------------------ *)
(* What the properties speak about                                      *)
(* ------------------------------------------------------------------ *)

\* get_size_in_bytes has returned.
Returned == pc \in {"returned", "done"}

NoFaults == \A n \in Nodes : fault[n] = "none"

\* Node n is Top or lies below it through real directories.
RECURSIVE InTree(_)
InTree(n) == n = Top \/ (parent[n] # 0 /\ InTree(parent[n]))

\* The directories strictly between n and Top, n's parent included.
RECURSIVE DirsAbove(_)
DirsAbove(n) ==
    IF parent[n] = 0 \/ parent[n] = Top THEN {}
    ELSE {parent[n]} \cup DirsAbove(parent[n])

RECURSIVE SumLen(_)
SumLen(S) ==
    IF S = {} THEN 0
    ELSE LET f == CHOOSE x \in S : TRUE IN len[f] + SumLen(S \ {f})

\* The regular files below Top.
FilesBelowTop == {f \in Nodes : f # Top /\ kind[f] = "file" /\ InTree(f)}

\* Those of them that no failure hides: their own record and metadata query
\* succeeded, and so did the query and the listing of every directory between
\* them and Top.
FilesSeen ==
    {f \in FilesBelowTop :
        fault[f] = "none" /\ \A d \in DirsAbove(f) : fault[d] = "none"}

Labels(abbr) ==
    IF abbr THEN <<"B", "K", "M", "G", "T", "P", "E">>
    ELSE <<"Bytes", "KiB", "MiB", "GiB", "TiB", "PiB", "EiB">>

\* The largest k with 1024^(k-1) <= s is the highest limb of s that is not 0
\* (1 for s = 0), and floor(s / 1024^(k-1)) is then that limb.
UnitIndex(s) ==
    IF IsZeroU64(s) THEN 1
    ELSE CHOOSE k \in Limbs : s[k] # 0 /\ \A j \in Limbs : j > k => s[j] = 0

ExpectedHuman(s, abbr) ==
    ToString(s[UnitIndex(s)]) \o " " \o Labels(abbr)[UnitIndex(s)]

(* ------------------------------------------------------------------ *)
(* Properties                                                           *)
(* ------------------------------------------------------------------ *)

\* C1: when the metadata query on the top-level path fails, get_size_in_bytes
\* returns that very error and no size, and nothing was listed or queried
\* beneath the path.
C1_TopStatErrorReturned ==
    fault[Top] = "stat" =>
        /\ Returned
        /\ result.tag = "Err"
        /\ result.err = topErr
        /\ \A n \in Nodes : listCount[n] = 0 /\ task[n] = "idle"
        /\ \A n \in Nodes \ {Top} : statCount[n] = 0

C1_Witness ==
    /\ pc = "done"
    /\ fault[Top] = "stat"
    /\ topErr = "PermissionDenied"
    /\ kind[Top] = "dir"
    /\ Children(Top) # {}
    /\ api = "bytes"
    /\ out.tag = "Err"

\* The directory Top holds one subdirectory whose listing failed, and
\* otherwise only regular files that were read without failure.
OneUnreadableSubdir ==
    /\ kind[Top] = "dir"
    /\ fault[Top] = "none"
    /\ \E d \in Children(Top) :
          /\ kind[d] = "dir"
          /\ fault[d] = "list"
          /\ \A c \in Children(Top) \ {d} : kind[c] = "file" /\ fault[c] = "none"

\* C2: once the top-level directory is stat'ed and listed, failures beneath it
\* never make the call fail, and with one unreadable subdirectory and N
\* readable files the result is the sum of the N files' lengths.
C2_NestedFailuresAbsorbed ==
    (Returned /\ kind[Top] = "dir" /\ fault[Top] = "none") =>
        /\ result.tag = "Ok"
        /\ \A n \in Nodes \ {Top} :
              fault[n] # "none" => task[n] = "done" /\ ~contrib[n].some
        /\ OneUnreadableSubdir =>
              result.val = SumLen({c \in Children(Top) : kind[c] = "file"})

C2_Witness ==
    /\ pc = "done"
    /\ OneUnreadableSubdir
    /\ Cardinality({c \in Children(Top) : kind[c] = "file"}) = 2
    /\ result.tag = "Ok"
    /\ result.val > 0

\* C3: when no filesystem call fails, every schedule of the workers ends with
\* the same result, the sum of the lengths of the regular files below the
\* directory, and every finished entry's contribution is the sum over its
\* own subtree, whatever its siblings have done so far.
C3_SumIndependentOfSchedule ==
    NoFaults =>
        /\ (Returned /\ kind[Top] = "dir") =>
              result.tag = "Ok" /\ result.val = SumLen(FilesBelowTop)
        /\ \A n \in Nodes \ {Top} :
              (task[n] = "done" /\ kind[n] = "dir") =>
                  /\ contrib[n].some
                  /\ contrib[n].val =
                        SumLen({f \in FilesBelowTop : n \in DirsAbove(f)})
        /\ \A n \in Nodes \ {Top} :
              (task[n] = "done" /\ kind[n] = "file") =>
                  contrib[n].some /\ contrib[n].val = len[n]

C3_Witness ==
    /\ pc = "done"
    /\ NoFaults
    /\ kind[Top] = "dir"
    /\ \E d \in Children(Top) : kind[d] = "dir" /\ Children(d) \cap FilesBelowTop # {}
    /\ Cardinality(FilesBelowTop) >= 2
    /\ result.tag = "Ok"
    /\ result.val = SumLen(FilesBelowTop)

\* C4: a failed listing of the top-level directory ends the call with that
\* error, while the failed listing of a nested directory only makes that
\* directory contribute nothing and the call goes on to return a size.
C4_ListingFailureAsymmetry ==
    /\ fault[Top] = "list" =>
          Returned /\ result.tag = "Err" /\ result.err = topErr
    /\ \A n \in Nodes \ {Top} :
          fault[n] = "list" =>
              /\ task[n] = "done"
              /\ ~contrib[n].some
              /\ Returned => result.tag = "Ok"

C4_Witness ==
    /\ pc = "done"
    /\ kind[Top] = "dir"
    /\ fault[Top] = "list"
    /\ Children(Top) # {}
    /\ result.tag = "Err"
    /\ result.err = topErr

\* C5 as stated: whenever the top-level metadata query succeeds, the call
\* returns a size.
C5_OnlyStatErrorSurfaces ==
    (Returned /\ fault[Top] # "stat") => result.tag = "Ok"

\* C5 amended: the call fails exactly when the metadata query on the
\* top-level path or the listing of the top-level directory itself fails;
\* when both succeed it returns a size, whatever fails beneath.
C5_OnlyTopLevelErrorsSurface ==
    Returned =>
        /\ result.tag = "Err" <=> fault[Top] \in {"stat", "list"}
        /\ result.tag = "Err" => result.err = topErr

C5_Witness ==
    /\ pc = "done"
    /\ result.tag = "Ok"
    /\ fault[Top] = "none"
    /\ \E n \in Nodes : fault[n] = "list"
    /\ \E n \in Nodes : fault[n] = "stat"

\* C6: a node that is neither a regular file nor a directory contributes
\* nothing and is never listed; as the top-level path it gives Ok(0); and no
\* node outside the real tree (the target of a link, say) is ever queried.
C6_OtherTypesCountZero ==
    /\ \A n \in Nodes :
          kind[n] \notin {"file", "dir"} =>
              /\ listCount[n] = 0
              /\ task[n] \in {"idle", "entry", "done"}
              /\ ~contrib[n].some
    /\ (Returned /\ kind[Top] \notin {"file", "dir"} /\ fault[Top] = "none") =>
          result.tag = "Ok" /\ result.val = 0
    /\ \A n \in Nodes : ~InTree(n) => statCount[n] = 0 /\ listCount[n] = 0
    /\ (Returned /\ result.tag = "Ok" /\ kind[Top] = "dir") =>
          result.val <= SumLen(FilesBelowTop)

C6_Witness ==
    /\ pc = "done"
    /\ result.tag = "Ok"
    /\ \E n \in Nodes \ {Top} :
          /\ kind[n] = "symlink"
          /\ InTree(n)
          /\ target[n] = parent[n]
          /\ task[n] = "done"
    /\ \E n \in Nodes \ {Top} : kind[n] = "socket" /\ task[n] = "done"
    /\ result.val > 0

\* C7: convert_to_human_bytes gives "<q> <label>" with k the largest index
\* such that 1024^k <= size (0 below 1 KiB, 6 from 1 EiB on), q the floor of
\* size / 1024^k and label the k-th unit, for every size and both label forms.
C7_FormatIsFloorOfLargestUnit ==
    fout # "" => fout = ExpectedHuman(fsize, fabbr)

C7_Witness ==
    /\ fsize = [i \in Limbs |-> IF i = 7 THEN 0 ELSE LimbMax(i)]
    /\ ~fabbr
    /\ fout = "1023 PiB"

\* C8: the two formatting entry points fail exactly when get_size_in_bytes
\* fails, with its error, and otherwise return its size formatted with full
\* or abbreviated labels.
C8_WrappersFollowSizeInBytes ==
    pc = "done" =>
        /\ api = "bytes" => out = result
        /\ api \in {"human", "abbr"} =>
              /\ out.tag = result.tag
              /\ result.tag = "Err" => out.err = result.err
              /\ result.tag = "Ok" =>
                    out.text = ExpectedHuman(ToU64(result.val), api = "abbr")

C8_Witness ==
    /\ pc = "done"
    /\ api = "abbr"
    /\ kind[Top] = "dir"
    /\ result.tag = "Ok"
    /\ result.val = 600 + 1200 + 2400
    /\ out.text = "4 K"

\* C9: under a fair schedule every call comes to its end with a size or an
\* error, and during the call no node is listed twice or queried twice.
C9_TerminatesWithoutRetry ==
    /\ <>(pc = "done" /\ result.tag \in {"Ok", "Err"})
    /\ [](\A n \in Nodes : listCount[n] <= 1 /\ statCount[n] <= 1)

C9_Witness ==
    /\ pc = "done"
    /\ result.tag = "Ok"
    /\ \E n \in Nodes \ {Top} :
          kind[n] = "symlink" /\ InTree(n) /\ target[n] = Top /\ statCount[n] = 1
    /\ \E n \in Nodes : fault[n] = "stat" /\ statCount[n] = 1
    /\ \E n \in Nodes : fault[n] = "list" /\ listCount[n] = 1

\* C10: a successful call on a directory returns the sum of the lengths of
\* exactly the files no failure hides; so it is at most the total without
\* failures and equals it when nothing fails.
C10_FailureLocality ==
    (Returned /\ result.tag = "Ok" /\ kind[Top] = "dir") =>
        /\ result.val = SumLen(FilesSeen)
        /\ result.val <= SumLen(FilesBelowTop)
        /\ NoFaults => result.val = SumLen(FilesBelowTop)

C10_Witness ==
    /\ pc = "done"
    /\ result.tag = "Ok"
    /\ \E d \in Children(Top) :
          /\ fault[d] = "list"
          /\ Children(d) \cap FilesBelowTop # {}
          /\ \E f \in Children(Top) : kind[f] = "file" /\ result.val = len[f]

====
